---- MODULE Spec2Model ----
(***************************************************************************)
(* Model of the Wikipedia bot of src/wikipedia_bot.py: the text chunker    *)
(* (split_text) and the article resolution pipeline (get_article).         *)
(*                                                                         *)
(* Texts and titles are sequences of one-character strings, so that        *)
(* len(), str.split(), str.lower() and the `in` substring test are         *)
(* computed as Python computes them.                                       *)
(***************************************************************************)
EXTENDS Integers, Sequences, FiniteSets, TLC

VARIABLES
    text,         \* split_text: the argument `text`
    max_length,   \* split_text: the argument `max_length`
    chunks,       \* the value split_text(text, max_length) returned
    c_pc,         \* "input" -> "split" -> "rechunked"
    re_index,     \* index of the returned chunk that was split again (0: none)
    re_chunks,    \* the value split_text(chunks[re_index], max_length) returned
    overflows,    \* split_text: per chunks.append inside the loops, the unit
                  \* whose test at line 485 or 498 failed
    req,          \* get_article: per call, its position, locals, backend calls
                  \* made and replies delivered
    sc_page_title,    \* the scorers: the argument `page_title` (`result`)
    sc_search_term,   \* the scorers: the argument `search_term`
    sc_page_score,    \* what score_page_title(page_title, search_term) returned
    sc_library_score, \* what score_library_result(result, search_term) returned
    sc_exact_score,   \* what score_page_title(search_term, search_term) returned
    full,         \* send_full_article: its position, locals and the messages
                  \* the transport delivered
    cb            \* handle_callback: the button pressed, the branch taken and
                  \* the title handed on

chunkVars == <<text, max_length, chunks, c_pc, re_index, re_chunks, overflows>>

scoreVars ==
    <<sc_page_title, sc_search_term, sc_page_score, sc_library_score,
      sc_exact_score>>

sendVars == <<full, cb>>

vars == <<chunkVars, req, scoreVars, sendVars>>

-----------------------------------------------------------------------------
(* Bounds of the chunker inputs.                                           *)

MaxLen == 6       \* longest input text, in characters
MaxCeil == 4      \* largest ceiling max_length

-----------------------------------------------------------------------------
(* Strings.                                                                *)

NL == "\n"
Alphabet == {"a", ".", " ", NL}

PARA == <<NL, NL>>      \* the paragraph separator '\n\n'
SENT == <<".", " ">>    \* the sentence separator '. '

Texts == UNION {[1..k -> Alphabet] : k \in 0..MaxLen}

Drop(s, n) == SubSeq(s, n + 1, Len(s))

StartsWith(s, p) == Len(p) <= Len(s) /\ SubSeq(s, 1, Len(p)) = p

\* `k in s` of Python: k occurs in s as a contiguous substring.
Contains(s, k) == \E i \in 0..(Len(s) - Len(k)) : SubSeq(s, i + 1, i + Len(k)) = k

\* s.find(sep): 0-based index of the leftmost occurrence, -1 when there is none.
Find(s, sep) ==
    IF Contains(s, sep)
    THEN CHOOSE i \in 0..(Len(s) - Len(sep)) :
            /\ SubSeq(s, i + 1, i + Len(sep)) = sep
            /\ \A j \in 0..(i - 1) : SubSeq(s, j + 1, j + Len(sep)) # sep
    ELSE -1

\* s.split(sep): the pieces between the leftmost non-overlapping occurrences.
RECURSIVE StrSplit(_, _)
StrSplit(s, sep) ==
    LET i == Find(s, sep)
    IN  IF i = -1 THEN <<s>>
        ELSE <<SubSeq(s, 1, i)>> \o StrSplit(Drop(s, i + Len(sep)), sep)

-----------------------------------------------------------------------------
(* split_text, src/wikipedia_bot.py:473-511.                               *)

\* line 475: the text fits in one message.
FitsWholeStrict(t, L) == Len(t) < L
FitsWhole(t, L) == Len(t) <= L

\* lines 485 and 498: the unit still fits behind the buffer.
FitsEarly(current_chunk, unit, L) == Len(current_chunk) + Len(unit) + 2 < L
Fits(current_chunk, unit, L) == Len(current_chunk) + Len(unit) + 2 <= L

\* lines 486-489 and 499-502: append the unit to the buffer.
Join(current_chunk, sep, unit) ==
    IF current_chunk # <<>> THEN current_chunk \o sep \o unit ELSE unit

\* lines 504-506: the sentence does not fit; flush a non-empty buffer and
\* restart the buffer with the sentence.
SentenceOverflowDropping(st, sentence) ==
    [chunks |-> st.chunks, current_chunk |-> sentence,
     overflows |-> st.overflows]
SentenceOverflow(st, sentence) ==
    [chunks |-> IF st.current_chunk # <<>>
                THEN Append(st.chunks, st.current_chunk) ELSE st.chunks,
     current_chunk |-> sentence,
     overflows |-> IF st.current_chunk # <<>>
                   THEN Append(st.overflows, sentence) ELSE st.overflows]

\* lines 497-506: the loop over the sentences of one paragraph.
RECURSIVE SentenceLoop(_, _, _, _)
SentenceLoop(sentences, i, st, L) ==
    IF i > Len(sentences) THEN st
    ELSE LET sentence == sentences[i]
             nxt == IF Fits(st.current_chunk, sentence, L)
                    THEN [chunks |-> st.chunks,
                          current_chunk |-> Join(st.current_chunk, SENT, sentence),
                          overflows |-> st.overflows]
                    ELSE SentenceOverflow(st, sentence)
         IN  SentenceLoop(sentences, i + 1, nxt, L)

\* lines 490-506: the paragraph does not fit behind the buffer.
ParagraphOverflow(st, paragraph, L) ==
    IF st.current_chunk # <<>>
    THEN [chunks |-> Append(st.chunks, st.current_chunk),
          current_chunk |-> paragraph,
          overflows |-> Append(st.overflows, paragraph)]
    ELSE SentenceLoop(StrSplit(paragraph, SENT), 1, st, L)

\* lines 484-506: the loop over the paragraphs.
RECURSIVE ParagraphLoop(_, _, _, _)
ParagraphLoop(paragraphs, i, st, L) ==
    IF i > Len(paragraphs) THEN st
    ELSE LET paragraph == paragraphs[i]
             nxt == IF Fits(st.current_chunk, paragraph, L)
                    THEN [chunks |-> st.chunks,
                          current_chunk |-> Join(st.current_chunk, PARA, paragraph),
                          overflows |-> st.overflows]
                    ELSE ParagraphOverflow(st, paragraph, L)
         IN  ParagraphLoop(paragraphs, i + 1, nxt, L)

\* lines 478-506: the locals when the loop over the paragraphs has ended.
SplitLoops(t, L) ==
    ParagraphLoop(StrSplit(t, PARA), 1,
                  [chunks |-> <<>>, current_chunk |-> <<>>, overflows |-> <<>>], L)

split_text(t, L) ==
    IF FitsWhole(t, L) THEN <<t>>
    ELSE LET st == SplitLoops(t, L)
         IN  IF st.current_chunk # <<>>
             THEN Append(st.chunks, st.current_chunk)
             ELSE st.chunks

\* The units that did not fit behind the buffer, one per chunk appended
\* inside the loops (lines 492 and 505).
split_overflows(t, L) ==
    IF FitsWhole(t, L) THEN <<>> ELSE SplitLoops(t, L).overflows

-----------------------------------------------------------------------------
(* The calls of get_article.  The bot object holds no per-request state     *)
(* (__init__, lines 23-25): everything a call reads or writes is its own    *)
(* parameters and locals, kept here in one record per call.                 *)

CallIds == {1, 2}

\* A call that has not been made.  None is the empty sequence, a value v
\* that may be None is <<v>>.
Absent ==
    [pc |-> "absent",
     title |-> <<>>,             \* get_article(message, title)
     page_titles |-> <<>>,       \* get_wikipedia_page_direct: page_titles
     best_page_title |-> <<>>,   \* get_wikipedia_page_direct: best_page_title
     direct_result |-> <<>>,     \* get_article: direct_result
     page |-> <<>>,              \* get_article: page
     options |-> <<>>,           \* e.options of the DisambiguationError
     search_results |-> <<>>,    \* search_results (lines 184 and 517)
     scored_results |-> <<>>,    \* get_article: scored_results
     i |-> 0,                    \* position of the loop of line 232
     image_url |-> "",           \* send_*_summary: image_url
     filtered_results |-> <<>>,  \* handle_page_not_found: filtered_results
     e |-> "",                   \* the exception caught at line 247
     log |-> <<>>,               \* ContentSource calls made, in order
     replies |-> <<>>]           \* replies the transport delivered, in order

\* send_full_article has not been called.
NoFullArticle ==
    [pc |-> "unused",
     title |-> <<>>,      \* send_full_article(message, title)
     i |-> 0,             \* position of the loop of line 456
     messages |-> <<>>]   \* messages the transport delivered, in order

\* No button has been pressed.
NoCallback ==
    [pc |-> "unused",
     callback_data |-> <<>>,   \* query.data
     built_from |-> <<>>,      \* the title the pressed button was built from
     action |-> "",            \* the coroutine handle_callback awaited
     title |-> <<>>,           \* the title handed to it
     replies |-> <<>>]         \* replies of send_longer_summary, in order

-----------------------------------------------------------------------------
(* The chunker applied to every bounded input.                             *)

ChunkInit ==
    /\ text \in Texts
    /\ max_length \in 1..MaxCeil
    /\ chunks = <<>>
    /\ c_pc = "input"
    /\ re_index = 0
    /\ re_chunks = <<>>
    /\ overflows = <<>>
    /\ req = [c \in CallIds |-> Absent]
    /\ sc_page_title = <<>>
    /\ sc_search_term = <<>>
    /\ sc_page_score = <<>>
    /\ sc_library_score = <<>>
    /\ sc_exact_score = <<>>
    /\ full = NoFullArticle
    /\ cb = NoCallback

\* chunks = self.split_text(text, max_length)
SplitText ==
    /\ c_pc = "input"
    /\ chunks' = split_text(text, max_length)
    /\ overflows' = split_overflows(text, max_length)
    /\ c_pc' = "split"
    /\ UNCHANGED <<text, max_length, re_index, re_chunks, req, scoreVars,
                   sendVars>>

\* self.split_text(c, max_length) for a chunk c of the previous result
Rechunk ==
    /\ c_pc = "split"
    /\ \E i \in 1..Len(chunks) :
          /\ re_index' = i
          /\ re_chunks' = split_text(chunks[i], max_length)
    /\ c_pc' = "rechunked"
    /\ UNCHANGED <<text, max_length, chunks, overflows, req, scoreVars,
                   sendVars>>

ChunkNext == SplitText \/ Rechunk

ChunkSpec == ChunkInit /\ [][ChunkNext]_vars

-----------------------------------------------------------------------------
(* Properties of split_text.                                               *)

\* A chunk that holds neither separator: one sentence of one paragraph.
Atomic(c) == ~Contains(c, PARA) /\ ~Contains(c, SENT)

\* C1: every chunk returned by split_text(T, L) has length <= L, unless the
\* chunk is one atomic sentence (no '\n\n', no '. ') longer than L.
C1_ChunkWithinCeiling ==
    c_pc # "input" =>
        \A i \in 1..Len(chunks) :
            \/ Len(chunks[i]) <= max_length
            \/ Atomic(chunks[i])

\* Joining the chunks with exactly one separator at each split point gives t.
RECURSIVE Reassembles(_, _)
Reassembles(t, cs) ==
    IF cs = <<>> THEN t = <<>>
    ELSE /\ StartsWith(t, cs[1])
         /\ LET r == Drop(t, Len(cs[1]))
            IN  IF Len(cs) = 1 THEN r = <<>>
                ELSE \/ StartsWith(r, PARA) /\ Reassembles(Drop(r, 2), Tail(cs))
                     \/ StartsWith(r, SENT) /\ Reassembles(Drop(r, 2), Tail(cs))

\* t is the chunks in order, with one or more separators between consecutive
\* chunks and zero or more separators before the first and after the last.
\* mayStart: the next chunk may begin here (start of text, or after a separator).
RECURSIVE Covers(_, _, _)
Covers(t, cs, mayStart) ==
    \/ cs = <<>> /\ t = <<>>
    \/ /\ cs # <<>>
       /\ mayStart
       /\ StartsWith(t, cs[1])
       /\ Covers(Drop(t, Len(cs[1])), Tail(cs), FALSE)
    \/ StartsWith(t, PARA) /\ Covers(Drop(t, 2), cs, TRUE)
    \/ StartsWith(t, SENT) /\ Covers(Drop(t, 2), cs, TRUE)

\* C2 as stated: the chunks joined with the one separator removed at each
\* split point reproduce T, also when T begins with, ends with or contains
\* consecutive separators.
C2_ExactReassembly ==
    c_pc # "input" => Reassembles(text, chunks)

\* C2 as amended: the chunks cover T in order and only separators are missing:
\* T is the chunks with at least one separator between consecutive chunks and
\* any number of separators before the first and after the last chunk.
C2_ChunksCoverText ==
    c_pc # "input" => Covers(text, chunks, TRUE)

\* A text longer than the ceiling was split into several chunks and the
\* separators next to an empty paragraph or sentence were dropped.
C2_Witness ==
    /\ c_pc = "split"
    /\ Len(text) > max_length
    /\ Len(chunks) >= 2
    /\ ~Reassembles(text, chunks)
    /\ Covers(text, chunks, TRUE)

\* C7: re-chunking is idempotent: split_text(c, L) = [c] for every chunk c of
\* split_text(T, L).
C7_RechunkIdempotent ==
    c_pc = "rechunked" => re_chunks = <<chunks[re_index]>>

\* C8: a text with length(T) <= L comes back as the one-element sequence [T],
\* unchanged; the empty text comes back as one empty chunk.
C8_ShortTextUnchanged ==
    (c_pc # "input" /\ Len(text) <= max_length) => chunks = <<text>>

\* A text exactly as long as the ceiling, holding a paragraph separator, came
\* back whole.
C8_Witness ==
    /\ c_pc = "split"
    /\ Len(text) = max_length
    /\ Contains(text, PARA)
    /\ chunks = <<text>>

\* C21: chunking is greedy-maximal.  A chunk boundary is placed between two
\* consecutive units (paragraphs, or sentences of an oversized paragraph) only
\* when the buffer with the separator and the next unit would be longer than
\* max_length, so no two adjacent returned chunks c_i, c_i+1 satisfy
\* length(c_i) + 2 + length(c_i+1) <= max_length.  Every chunk but the one of
\* lines 508-509 was appended inside the loops, overflows[i] being the unit
\* that did not fit behind chunks[i].
C21_GreedyMaximal ==
    c_pc # "input" =>
        /\ Len(overflows) \in {Len(chunks) - 1, Len(chunks)}
        /\ \A i \in 1..Len(overflows) :
              Len(chunks[i]) + 2 + Len(overflows[i]) > max_length
        /\ \A i \in 1..(Len(chunks) - 1) :
              Len(chunks[i]) + 2 + Len(chunks[i + 1]) > max_length

\* A boundary was placed behind a buffer that the next unit overflowed by one
\* character, and the chunk that follows grew beyond that unit.
C21_Witness ==
    /\ c_pc = "split"
    /\ Len(text) > max_length
    /\ \E i \in 1..(Len(chunks) - 1) :
          /\ Len(chunks[i]) + 2 + Len(overflows[i]) = max_length + 1
          /\ Len(chunks[i + 1]) > Len(overflows[i])

\* C23: split_text(T, L) returns a non-empty sequence for every text T and
\* ceiling L > 0, and when length(T) > L none of the returned chunks is the
\* empty string, also for a text made only of separators.
C23_NonEmptyResult ==
    c_pc # "input" =>
        /\ chunks # <<>>
        /\ Len(text) > max_length => \A i \in 1..Len(chunks) : chunks[i] # <<>>

-----------------------------------------------------------------------------
(* Titles and queries.  A title is the sequence of its characters.         *)

EnDash == "en-dash"     \* the one character U+2013

\* 'Pink Floyd'
PinkFloyd ==
    <<"P", "i", "n", "k", " ", "F", "l", "o", "y", "d">>
\* 'The Dark Side of the Moon (album)'
DarkSideAlbum ==
    <<"T", "h", "e", " ", "D", "a", "r", "k", " ", "S", "i", "d", "e", " ",
      "o", "f", " ", "t", "h", "e", " ", "M", "o", "o", "n", " ", "(", "a",
      "l", "b", "u", "m", ")">>
\* 'Pink Floyd discography'
PinkFloydDiscography ==
    <<"P", "i", "n", "k", " ", "F", "l", "o", "y", "d", " ", "d", "i", "s",
      "c", "o", "g", "r", "a", "p", "h", "y">>
\* 'Queen'
Queen ==
    <<"Q", "u", "e", "e", "n">>
\* 'Queen (band)'
QueenBand ==
    <<"Q", "u", "e", "e", "n", " ", "(", "b", "a", "n", "d", ")">>
\* 'Pink Floyd: Live at Pompeii'
LiveAtPompeii ==
    <<"P", "i", "n", "k", " ", "F", "l", "o", "y", "d", ":", " ", "L", "i",
      "v", "e", " ", "a", "t", " ", "P", "o", "m", "p", "e", "i", "i">>
\* 'queen'
QueenLower ==
    <<"q", "u", "e", "e", "n">>
\* 'Mercury'
Mercury ==
    <<"M", "e", "r", "c", "u", "r", "y">>
\* 'Mercury (planet)'
MercuryPlanet ==
    <<"M", "e", "r", "c", "u", "r", "y", " ", "(", "p", "l", "a", "n", "e",
      "t", ")">>
\* 'Mercury (element)'
MercuryElement ==
    <<"M", "e", "r", "c", "u", "r", "y", " ", "(", "e", "l", "e", "m", "e",
      "n", "t", ")">>
\* 'Freddie Mercury'
FreddieMercury ==
    <<"F", "r", "e", "d", "d", "i", "e", " ", "M", "e", "r", "c", "u", "r",
      "y">>
\* 'Not found.', the title field of the REST API's 404 body
NotFoundTitle ==
    <<"N", "o", "t", " ", "f", "o", "u", "n", "d", ".">>

\* str.lower()
UpperCase ==
    <<"A", "B", "C", "D", "E", "F", "G", "H", "I", "J", "K", "L", "M",
      "N", "O", "P", "Q", "R", "S", "T", "U", "V", "W", "X", "Y", "Z">>
LowerCase ==
    <<"a", "b", "c", "d", "e", "f", "g", "h", "i", "j", "k", "l", "m",
      "n", "o", "p", "q", "r", "s", "t", "u", "v", "w", "x", "y", "z">>
LowerChar(ch) ==
    IF \E k \in 1..Len(UpperCase) : UpperCase[k] = ch
    THEN LowerCase[CHOOSE k \in 1..Len(UpperCase) : UpperCase[k] = ch]
    ELSE ch
RECURSIVE LowerFrom(_, _)
LowerFrom(s, k) ==
    IF k > Len(s) THEN <<>> ELSE <<LowerChar(s[k])>> \o LowerFrom(s, k + 1)
Lower(s) == LowerFrom(s, 1)

-----------------------------------------------------------------------------
(* The scorers: score_page_title (lines 99-134) of the direct API path and  *)
(* score_library_result (lines 188-223) of the library search path.         *)

KwAlbum == <<"a", "l", "b", "u", "m">>
KwSong == <<"s", "o", "n", "g">>
KwSingle == <<"s", "i", "n", "g", "l", "e">>
KwDiscography == <<"d", "i", "s", "c", "o", "g", "r", "a", "p", "h", "y">>
KwTour == <<"t", "o", "u", "r">>
KwLive == <<"l", "i", "v", "e">>
KwCompilation == <<"c", "o", "m", "p", "i", "l", "a", "t", "i", "o", "n">>
KwGreatestHits ==
    <<"g", "r", "e", "a", "t", "e", "s", "t", " ", "h", "i", "t", "s">>

ParenAlbum == <<"(", "a", "l", "b", "u", "m", ")">>
ParenSong == <<"(", "s", "o", "n", "g", ")">>
ParenBand == <<"(", "b", "a", "n", "d", ")">>
ParenMusician == <<"(", "m", "u", "s", "i", "c", "i", "a", "n", ")">>

\* lines 111-115
page_penalties ==
    << <<KwAlbum, -60>>, <<KwSong, -60>>, <<KwSingle, -60>>,
       <<KwDiscography, -70>>, <<KwTour, -50>>, <<KwLive, -50>>,
       <<KwCompilation, -40>>, <<KwGreatestHits, -40>> >>

\* lines 200-204
library_penalties ==
    << <<KwAlbum, -50>>, <<KwSong, -50>>, <<KwSingle, -50>>,
       <<KwDiscography, -60>>, <<KwTour, -40>>, <<KwLive, -40>>,
       <<KwCompilation, -30>>, <<KwGreatestHits, -30>> >>

\* line 122
page_separators ==
    << <<" ", EnDash, " ">>, <<" ", "-", " ">>, <<":", " ">>,
       ParenAlbum, ParenSong >>

\* lines 117-119 and 206-208: the penalties of the keywords the title holds
RECURSIVE SumPenalties(_, _, _)
SumPenalties(penalties, k, title_lower) ==
    IF k > Len(penalties) THEN 0
    ELSE (IF Contains(title_lower, penalties[k][1]) THEN penalties[k][2] ELSE 0)
         + SumPenalties(penalties, k + 1, title_lower)

BaseScoreNoExact(title_lower, search_lower) ==
    IF Contains(title_lower, search_lower) THEN 50 ELSE 0

\* lines 105-108 and 194-197
BaseScore(title_lower, search_lower) ==
    IF title_lower = search_lower THEN 100
    ELSE IF Contains(title_lower, search_lower) THEN 50
    ELSE 0

\* lines 129-132 and 218-221
LengthScore(page_title) ==
    IF Len(page_title) < 15 THEN 15
    ELSE IF Len(page_title) > 30 THEN -10
    ELSE 0

\* lines 122-126
PageSeparatorScore(page_title) ==
    IF \E k \in 1..Len(page_separators) : Contains(page_title, page_separators[k])
    THEN IF Contains(page_title, ParenBand) \/ Contains(page_title, ParenMusician)
         THEN 20
         ELSE -30
    ELSE 0

\* lines 211-215
LibrarySeparatorScore(result, result_lower) ==
    IF Contains(result, <<"(">>) /\ Contains(result, <<")">>)
    THEN IF \/ Contains(result_lower, ParenBand)
            \/ Contains(result_lower, ParenMusician)
         THEN 20
         ELSE -25
    ELSE 0

score_page_title(page_title, search_term) ==
    LET title_lower == Lower(page_title)
        search_lower == Lower(search_term)
    IN  BaseScore(title_lower, search_lower)
        + SumPenalties(page_penalties, 1, title_lower)
        + PageSeparatorScore(page_title)
        + LengthScore(page_title)

score_library_result(result, search_term) ==
    LET result_lower == Lower(result)
        search_lower == Lower(search_term)
    IN  BaseScore(result_lower, search_lower)
        + SumPenalties(library_penalties, 1, result_lower)
        + LibrarySeparatorScore(result, result_lower)
        + LengthScore(result)

\* list.sort(key=lambda x: x[0], reverse=True) on (score, title) pairs: by
\* descending score; the sort is stable, reverse=True included, so pairs
\* of equal score keep their order.
InsertByScoreUnstable(sorted, x) ==
    LET n == Cardinality({j \in 1..Len(sorted) : sorted[j][1] > x[1]})
    IN  SubSeq(sorted, 1, n) \o <<x>> \o SubSeq(sorted, n + 1, Len(sorted))
InsertByScoreAscending(sorted, x) ==
    LET n == Cardinality({j \in 1..Len(sorted) : sorted[j][1] <= x[1]})
    IN  SubSeq(sorted, 1, n) \o <<x>> \o SubSeq(sorted, n + 1, Len(sorted))
InsertByScore(sorted, x) ==
    LET n == Cardinality({j \in 1..Len(sorted) : sorted[j][1] >= x[1]})
    IN  SubSeq(sorted, 1, n) \o <<x>> \o SubSeq(sorted, n + 1, Len(sorted))

RECURSIVE SortByScore(_, _, _)
SortByScore(scored, k, sorted) ==
    IF k > Len(scored) THEN sorted
    ELSE SortByScore(scored, k + 1, InsertByScore(sorted, scored[k]))

\* line 137: [(score_page_title(title, title), title) for title in page_titles].
\* The loop variable is named title: inside the comprehension it hides the
\* parameter title of get_wikipedia_page_direct, so both arguments of
\* score_page_title are the candidate.
ScoredPages(page_titles, title) ==
    [k \in 1..Len(page_titles) |->
        <<score_page_title(page_titles[k], page_titles[k]), page_titles[k]>>]

\* lines 137-142: the title whose summary is fetched
BestPageTitle(page_titles, title) ==
    SortByScore(ScoredPages(page_titles, title), 1, <<>>)[1][2]

\* lines 226-227
ScoredResults(search_results, title) ==
    SortByScore([k \in 1..Len(search_results) |->
                    <<score_library_result(search_results[k], title),
                      search_results[k]>>], 1, <<>>)

-----------------------------------------------------------------------------
(* The ContentSource: what the two backends may answer.                    *)

MaxCands == 3     \* longest candidate list a search returns

Queries == {PinkFloyd, QueenLower, LiveAtPompeii, Mercury}

\* titles the opensearch API (primary backend) may return
PrimaryTitles ==
    {PinkFloyd, DarkSideAlbum, PinkFloydDiscography, Queen, QueenBand,
     LiveAtPompeii}

\* titles wikipedia.search (secondary backend) may return
LibraryTitles == {PinkFloyd, PinkFloydDiscography, Queen, QueenBand}

\* the non-empty lists of distinct titles of S, up to MaxCands long
CandLists(S) ==
    {l \in UNION {[1..k -> S] : k \in 1..MaxCands} :
        \A a, b \in 1..Len(l) : a # b => l[a] # l[b]}

\* e.options of a DisambiguationError
OptionLists ==
    {<<MercuryPlanet, MercuryElement, FreddieMercury>>,
     <<FreddieMercury, MercuryPlanet>>,
     <<QueenBand>>,
     <<>>}

\* requests.get(search_url, ...).json(), lines 88-89: the call raises
\* (network, timeout, no JSON), or yields [query], [query, []] or
\* [query, [titles]]
PrimarySearchResponses(title) ==
    {[kind |-> "exc", data |-> <<>>],
     [kind |-> "json", data |-> <<title>>],
     [kind |-> "json", data |-> <<title, <<>>>>]}
    \cup {[kind |-> "json", data |-> <<title, l>>] : l \in CandLists(PrimaryTitles)}

\* requests.get(content_url, ...).json(), lines 147-148: the call raises, or
\* yields a dict; keys are the keys it holds: the page with or without a
\* thumbnail, the body of a 404 ({'title': 'Not found.', ...}), or {}
SummaryResponses(best_page_title) ==
    {[kind |-> "exc", keys |-> {}, title |-> <<>>],
     [kind |-> "json", keys |-> {"title", "extract", "content_urls", "thumbnail"},
      title |-> best_page_title],
     [kind |-> "json", keys |-> {"title", "extract", "content_urls"},
      title |-> best_page_title],
     [kind |-> "json", keys |-> {"title"}, title |-> NotFoundTitle],
     [kind |-> "json", keys |-> {}, title |-> <<>>]}

\* wikipedia.page(...): a page, or one of the library's two exceptions, or
\* any other exception (requests' errors, HTTPTimeoutError, KeyError, ...)
LibPageResponses ==
    {[kind |-> k, options |-> <<>>] : k \in {"ok", "PageError", "TransportError"}}
    \cup {[kind |-> "DisambiguationError", options |-> o] : o \in OptionLists}

\* wikipedia.search(title, results=8): the call raises, or yields a list
LibSearchResponses ==
    {[kind |-> "exc", results |-> <<>>], [kind |-> "ok", results |-> <<>>]}
    \cup {[kind |-> "ok", results |-> l] : l \in CandLists(LibraryTitles)}

-----------------------------------------------------------------------------
(* get_article and the functions it calls, one action per step between      *)
(* two awaits or backend calls.                                              *)

LogEntry(op, res, arg) == [op |-> op, res |-> res, arg |-> arg]

Reply(kind, title, suggestions) ==
    [kind |-> kind, title |-> title, suggestions |-> suggestions]

\* as if title were kept in an attribute of the bot object
SetReqShared(c, r) ==
    /\ req' = [d \in CallIds |->
                  IF d = c THEN r ELSE [req[d] EXCEPT !.title = r.title]]
    /\ UNCHANGED <<chunkVars, scoreVars, sendVars>>

\* an assignment to the parameters and locals of call c
SetReq(c, r) ==
    req' = [req EXCEPT ![c] = r] /\ UNCHANGED <<chunkVars, scoreVars, sendVars>>

\* lines 150-155: the dict get_wikipedia_page_direct returns
DirectResult(content_data, best_page_title) ==
    [title |-> IF "title" \in content_data.keys
               THEN content_data.title ELSE best_page_title,
     summary |-> IF "extract" \in content_data.keys THEN "extract" ELSE "",
     url |-> IF "content_urls" \in content_data.keys THEN "url" ELSE "",
     image |-> IF "thumbnail" \in content_data.keys THEN "image" ELSE ""]

\* line 168, `if direct_result:`: None is false, a dict is true unless empty
IsTruthy(direct_result) ==
    direct_result # <<>> /\ DOMAIN direct_result[1] # {}

\* lines 168-173: with a result, send it and return (send_direct_summary tries
\* the photo first when there is an image, lines 280-288); without, go on to
\* the library
AfterDirectNoReturn(direct_result) == "lib_page"
AfterDirect(direct_result) ==
    IF IsTruthy(direct_result)
    THEN IF direct_result[1].image # "" THEN "sds_photo" ELSE "sds_text"
    ELSE "lib_page"

\* lines 77-143: the opensearch call, answered by one of responses, and the
\* choice of best_page_title
DirectSearchOf(c, responses) ==
    LET r == req[c] IN
    /\ r.pc = "direct_search"
    /\ \E resp \in responses :
          IF resp.kind = "exc" \/ Len(resp.data) < 2 \/ resp.data[2] = <<>>
          THEN SetReq(c, [r EXCEPT
                  !.pc = "lib_page",
                  !.direct_result = <<>>,
                  !.log = Append(@, LogEntry("primary_search",
                              IF resp.kind = "exc" THEN "exc" ELSE "empty",
                              r.title))])
          ELSE SetReq(c, [r EXCEPT
                  !.pc = "direct_fetch",
                  !.page_titles = resp.data[2],
                  !.best_page_title = BestPageTitle(resp.data[2], r.title),
                  !.log = Append(@, LogEntry("primary_search", "ok", r.title))])

DirectSearch(c) == DirectSearchOf(c, PrimarySearchResponses(req[c].title))

\* lines 145-159 and 167-171: the summary call, the returned dict, and
\* get_article's test of it; page_titles and best_page_title go out of scope
DirectFetch(c) ==
    LET r == req[c] IN
    /\ r.pc = "direct_fetch"
    /\ \E resp \in SummaryResponses(r.best_page_title) :
          LET direct_result ==
                  IF resp.kind = "exc" THEN <<>>
                  ELSE <<DirectResult(resp, r.best_page_title)>>
          IN  SetReq(c, [r EXCEPT
                  !.pc = AfterDirect(direct_result),
                  !.direct_result = direct_result,
                  !.image_url = IF IsTruthy(direct_result)
                                THEN direct_result[1].image ELSE "",
                  !.page_titles = <<>>,
                  !.best_page_title = <<>>,
                  !.log = Append(@, LogEntry("primary_fetch",
                              IF resp.kind = "exc" THEN "exc" ELSE "json",
                              r.best_page_title))])

\* One send: the transport delivers the reply and the call goes to pc_ok, or
\* the send raises, nothing is delivered and the call goes to pc_fail.
Send(c, at, reply, pc_ok, pc_fail, e_fail) ==
    LET r == req[c] IN
    /\ r.pc = at
    /\ \/ SetReq(c, [r EXCEPT !.pc = pc_ok, !.replies = Append(@, reply)])
       \/ SetReq(c, [r EXCEPT !.pc = pc_fail,
                              !.e = IF e_fail = "" THEN @ ELSE e_fail])

\* lines 288 and 333: the return after reply_photo delivered the reply
AfterPhotoNoReturn(text_pc) == text_pc
AfterPhoto(text_pc) == "done"

\* send_direct_summary, lines 280-290: reply_photo
SendDirectPhoto(c) ==
    Send(c, "sds_photo",
         Reply("direct_summary", req[c].direct_result[1].title, <<>>),
         AfterPhoto("sds_text"), "sds_text", "")

\* send_direct_summary, lines 293-298: reply_text
SendDirectText(c) ==
    Send(c, "sds_text",
         Reply("direct_summary", req[c].direct_result[1].title, <<>>),
         "done", "sds_fallback", "")

\* send_direct_summary, lines 300-305: the reply of the except branch; an
\* exception of it reaches line 247 of get_article
SendDirectFallback(c) ==
    Send(c, "sds_fallback",
         Reply("format_fallback", req[c].direct_result[1].title, <<>>),
         "done", "error_reply", "SendError")

\* lines 242-245: with a page, send_article_summary; without,
\* handle_page_not_found
AfterLookupAlwaysNotFound(page) == "nf_search"
AfterLookup(page) == IF page # <<>> THEN "sas_images" ELSE "nf_search"

\* line 180: e.options[0]
LastOption(options) == options[Len(options)]
FirstOption(options) == options[1]

\* lines 174-182: wikipedia.page(title, auto_suggest=True) and the except
\* clauses that catch DisambiguationError and PageError; any other
\* exception, and the IndexError of e.options[0], reach line 247
LibPage(c) ==
    LET r == req[c] IN
    /\ r.pc = "lib_page"
    /\ \E resp \in LibPageResponses :
          LET entry == LogEntry("lib_page", resp.kind, r.title) IN
          CASE resp.kind = "ok" ->
                SetReq(c, [r EXCEPT !.pc = AfterLookup(<<[title |-> r.title]>>),
                                    !.page = <<[title |-> r.title]>>,
                                    !.log = Append(@, entry)])
            [] resp.kind = "DisambiguationError" ->
                IF resp.options = <<>>
                THEN SetReq(c, [r EXCEPT !.pc = "error_reply",
                                         !.e = "IndexError",
                                         !.log = Append(@, entry)])
                ELSE SetReq(c, [r EXCEPT !.pc = "lib_option",
                                         !.options = resp.options,
                                         !.log = Append(@, entry)])
            [] resp.kind = "PageError" ->
                SetReq(c, [r EXCEPT !.pc = "lib_search",
                                    !.log = Append(@, entry)])
            [] OTHER ->
                SetReq(c, [r EXCEPT !.pc = "error_reply",
                                    !.e = resp.kind,
                                    !.log = Append(@, entry)])

\* line 180: page = wikipedia.page(e.options[0]), inside the except clause:
\* whatever it raises reaches line 247
LibOptionPage(c) ==
    LET r == req[c] IN
    /\ r.pc = "lib_option"
    /\ \E kind \in {"ok", "PageError", "DisambiguationError", "TransportError"} :
          LET entry == LogEntry("lib_page_option", kind, FirstOption(r.options)) IN
          IF kind = "ok"
          THEN SetReq(c, [r EXCEPT !.pc = AfterLookup(<<[title |-> FirstOption(r.options)]>>),
                                   !.page = <<[title |-> FirstOption(r.options)]>>,
                                   !.log = Append(@, entry)])
          ELSE SetReq(c, [r EXCEPT !.pc = "error_reply",
                                   !.e = kind,
                                   !.log = Append(@, entry)])

\* lines 183-227 and 239-245: wikipedia.search(title, results=8), the scoring
\* and the sort; an exception is passed over, and like an empty list it
\* leaves page None
LibSearchOf(c, responses) ==
    LET r == req[c] IN
    /\ r.pc = "lib_search"
    /\ \E resp \in responses :
          LET entry == LogEntry("lib_search", resp.kind, r.title) IN
          IF resp.kind = "exc" \/ resp.results = <<>>
          THEN SetReq(c, [r EXCEPT !.pc = AfterLookup(r.page),
                                   !.log = Append(@, entry)])
          ELSE SetReq(c, [r EXCEPT !.pc = "lib_try",
                                   !.search_results = resp.results,
                                   !.scored_results = ScoredResults(resp.results, r.title),
                                   !.i = 1,
                                   !.log = Append(@, entry)])

LibSearch(c) == LibSearchOf(c, LibSearchResponses)

\* lines 232-238 and 242-245: one round of the loop over scored_results;
\* every exception of wikipedia.page is caught alike (line 237).  The loop
\* over, search_results and scored_results are not read again.
LibTry(c) ==
    LET r == req[c]
        result == r.scored_results[r.i][2]
    IN
    /\ r.pc = "lib_try"
    /\ \E kind \in {"ok", "exc"} :
          LET entry == LogEntry("lib_page_result", kind, <<>>) IN
          IF kind = "ok"
          THEN SetReq(c, [r EXCEPT !.pc = AfterLookup(<<[title |-> result]>>),
                                   !.page = <<[title |-> result]>>,
                                   !.search_results = <<>>,
                                   !.scored_results = <<>>,
                                   !.i = 0,
                                   !.log = Append(@, entry)])
          ELSE IF r.i < Len(r.scored_results)
          THEN SetReq(c, [r EXCEPT !.i = r.i + 1,
                                   !.log = Append(@, entry)])
          ELSE SetReq(c, [r EXCEPT !.pc = AfterLookup(r.page),
                                   !.search_results = <<>>,
                                   !.scored_results = <<>>,
                                   !.i = 0,
                                   !.log = Append(@, entry)])

\* send_article_summary, line 311: get_featured_image reads page.images (a
\* backend call of the library); an exception gives None (lines 380-381)
SasImages(c) ==
    LET r == req[c] IN
    /\ r.pc = "sas_images"
    /\ \E resp \in {[res |-> "exc", image |-> ""], [res |-> "ok", image |-> ""],
                    [res |-> "ok", image |-> "image"]} :
          SetReq(c, [r EXCEPT !.pc = "sas_summary",
                              !.image_url = resp.image,
                              !.log = Append(@, LogEntry("lib_images", resp.res, <<>>))])

\* send_article_summary, line 314: create_enhanced_summary calls
\* wikipedia.summary; an exception gives the title-and-link text
\* (lines 412-414)
SasSummary(c) ==
    LET r == req[c] IN
    /\ r.pc = "sas_summary"
    /\ \E res \in {"ok", "exc"} :
          SetReq(c, [r EXCEPT
              !.pc = IF r.image_url # "" THEN "sas_photo" ELSE "sas_text",
              !.log = Append(@, LogEntry("lib_summary", res, <<>>))])

\* send_article_summary, lines 325-335: reply_photo
SendArticlePhoto(c) ==
    Send(c, "sas_photo",
         Reply("article_summary", req[c].page[1].title, <<>>),
         AfterPhoto("sas_text"), "sas_text", "")

\* send_article_summary, lines 338-343: reply_text
SendArticleText(c) ==
    Send(c, "sas_text",
         Reply("article_summary", req[c].page[1].title, <<>>),
         "done", "sas_fallback", "")

\* send_article_summary, lines 345-350
SendArticleFallback(c) ==
    Send(c, "sas_fallback",
         Reply("format_fallback", req[c].page[1].title, <<>>),
         "done", "error_reply", "SendError")

RECURSIVE FilterResultsCaseSensitive(_, _, _)
FilterResultsCaseSensitive(search_results, k, title) ==
    IF k > Len(search_results) THEN <<>>
    ELSE (IF search_results[k] # title
          THEN <<search_results[k]>> ELSE <<>>)
         \o FilterResultsCaseSensitive(search_results, k + 1, title)

\* line 519: the results that differ from the title, case ignored
RECURSIVE FilterResults(_, _, _)
FilterResults(search_results, k, title) ==
    IF k > Len(search_results) THEN <<>>
    ELSE (IF Lower(search_results[k]) # Lower(title)
          THEN <<search_results[k]>> ELSE <<>>)
         \o FilterResults(search_results, k + 1, title)

\* line 523: filtered_results[:3]
FirstThree(filtered_results) ==
    SubSeq(filtered_results, 1,
           IF Len(filtered_results) < 3 THEN Len(filtered_results) ELSE 3)

\* wikipedia.search(title, results=8) of line 517: as at line 184, and lists
\* longer than the three suggestions shown
NotFoundSearchResponses ==
    LibSearchResponses
    \cup {[kind |-> "ok", results |-> l] :
            l \in {<<Queen, QueenBand, PinkFloydDiscography, PinkFloyd>>,
                   <<PinkFloyd, QueenLower, Queen, QueenBand,
                     PinkFloydDiscography>>}}

\* lines 521-537: the reply with the suggestion buttons, or the guidance
NotFoundReplyAlwaysSuggests(title, filtered_results) ==
    Reply("not_found_suggestions", title, FirstThree(filtered_results))
NotFoundReplyFor(title, filtered_results) ==
    IF filtered_results # <<>>
    THEN Reply("not_found_suggestions", title, FirstThree(filtered_results))
    ELSE Reply("not_found_guidance", title, <<>>)

\* handle_page_not_found, lines 515-519 and 538: the search and the filter
NotFoundSearchOf(c, responses) ==
    LET r == req[c] IN
    /\ r.pc = "nf_search"
    /\ \E resp \in responses :
          LET entry == LogEntry("nf_search", resp.kind, r.title) IN
          IF resp.kind = "exc"
          THEN SetReq(c, [r EXCEPT !.pc = "nf_fallback",
                                   !.log = Append(@, entry)])
          ELSE SetReq(c, [r EXCEPT
                  !.pc = "nf_reply",
                  !.search_results = resp.results,
                  !.filtered_results = FilterResults(resp.results, 1, r.title),
                  !.log = Append(@, entry)])

NotFoundSearch(c) == NotFoundSearchOf(c, NotFoundSearchResponses)

\* handle_page_not_found, lines 521-537: the suggestions or the guidance
NotFoundReply(c) ==
    Send(c, "nf_reply",
         NotFoundReplyFor(req[c].title, req[c].filtered_results),
         "done", "nf_fallback", "")

\* handle_page_not_found, lines 538-542
NotFoundFallback(c) ==
    Send(c, "nf_fallback",
         Reply("not_found_fallback", req[c].title, <<>>),
         "done", "error_reply", "SendError")

\* get_article, lines 247-252: the reply of the outer except; an exception
\* of it leaves get_article
ErrorReply(c) ==
    Send(c, "error_reply",
         Reply("error", req[c].title, <<>>),
         "done", "raised", "")

\* handle_message, lines 46-50: one call of get_article with the user's text
NewCall(query) == [Absent EXCEPT !.pc = "direct_search", !.title = query]

Init ==
    /\ text = <<>>
    /\ max_length = 1
    /\ chunks = <<>>
    /\ c_pc = "unused"
    /\ re_index = 0
    /\ re_chunks = <<>>
    /\ overflows = <<>>
    /\ sc_page_title = <<>>
    /\ sc_search_term = <<>>
    /\ sc_page_score = <<>>
    /\ sc_library_score = <<>>
    /\ sc_exact_score = <<>>
    /\ full = NoFullArticle
    /\ cb = NoCallback
    /\ \E query \in Queries :
          req = [c \in CallIds |-> IF c = 1 THEN NewCall(query) ELSE Absent]

\* the steps of a call other than the three searches
OtherStep(c) ==
    \/ DirectFetch(c)
    \/ SendDirectPhoto(c)
    \/ SendDirectText(c)
    \/ SendDirectFallback(c)
    \/ LibPage(c)
    \/ LibOptionPage(c)
    \/ LibTry(c)
    \/ SasImages(c)
    \/ SasSummary(c)
    \/ SendArticlePhoto(c)
    \/ SendArticleText(c)
    \/ SendArticleFallback(c)
    \/ NotFoundReply(c)
    \/ NotFoundFallback(c)
    \/ ErrorReply(c)

Step(c) ==
    \/ DirectSearch(c)
    \/ LibSearch(c)
    \/ NotFoundSearch(c)
    \/ OtherStep(c)

Next == \E c \in CallIds : Step(c)

Spec == Init /\ [][Next]_vars

-----------------------------------------------------------------------------
(* Properties of the resolution pipeline.                                  *)

Ops(r, ops) == {k \in 1..Len(r.log) : r.log[k].op \in ops}

PrimaryOps == {"primary_search", "primary_fetch"}
SecondaryOps ==
    {"lib_page", "lib_page_option", "lib_search", "lib_page_result",
     "lib_images", "lib_summary", "nf_search"}
DirectSendPcs == {"sds_photo", "sds_text", "sds_fallback"}
ArticleSendPcs ==
    {"sas_images", "sas_summary", "sas_photo", "sas_text", "sas_fallback"}

\* C3: at stage 1 the candidate whose page is fetched maximizes
\* score(candidate, query) over the candidates of the primary search, query
\* being the title passed to get_wikipedia_page_direct.
C3_WinnerMaximizesQueryScore ==
    \A c \in CallIds :
        LET r == req[c] IN
        r.pc = "direct_fetch" =>
            \A k \in 1..Len(r.page_titles) :
                score_page_title(r.best_page_title, r.title)
                    >= score_page_title(r.page_titles[k], r.title)

\* C4: a transport or parsing failure of a ContentSource call never ends the
\* attempt in the error outcome: it never reaches the handler of line 247.
C4_StageFailureNeverFatal ==
    \A c \in CallIds :
        req[c].pc = "error_reply" => req[c].e # "TransportError"

\* C5: stage 1 sends an article reply only for a real page: the summary
\* response held an extract and a URL.
C5_ResolvedOnlyForRealPage ==
    \A c \in CallIds :
        LET r == req[c] IN
        r.pc \in DirectSendPcs =>
            /\ r.direct_result[1].summary # ""
            /\ r.direct_result[1].url # ""

HasPenaltyKeyword(page_title) ==
    \E k \in 1..Len(page_penalties) :
        Contains(Lower(page_title), page_penalties[k][1])

\* C6: when the primary candidates hold a title equal to the query, case
\* ignored, and every other candidate holds a penalty keyword, stage 1
\* selects the exact-match title, whatever the order of the candidates.
C6_ExactMatchDominates ==
    \A c \in CallIds :
        LET r == req[c] IN
        ( /\ r.pc = "direct_fetch"
          /\ \E k \in 1..Len(r.page_titles) :
                Lower(r.page_titles[k]) = Lower(r.title)
          /\ \A k \in 1..Len(r.page_titles) :
                Lower(r.page_titles[k]) # Lower(r.title)
                    => HasPenaltyKeyword(r.page_titles[k]) )
        => Lower(r.best_page_title) = Lower(r.title)

\* C9: within one call the stages run in order and lazily: one primary
\* search and at most one primary fetch, none after a later stage started;
\* no secondary call when stage 1 produced an article; the stage-3 search
\* only right after the stage-2 lookup of the query raised PageError; the
\* stage-4 search only when no page was obtained.
C9_StagesInOrder ==
    \A c \in CallIds :
        LET r == req[c] IN
        /\ Cardinality(Ops(r, {"primary_search"})) <= 1
        /\ Cardinality(Ops(r, {"primary_fetch"})) <= 1
        /\ \A k \in Ops(r, {"primary_fetch"}) :
              k > 1 /\ r.log[k - 1].op = "primary_search"
        /\ \A k \in Ops(r, PrimaryOps) : \A j \in 1..k : r.log[j].op \in PrimaryOps
        /\ Ops(r, SecondaryOps) # {} => ~IsTruthy(r.direct_result)
        /\ \A k \in Ops(r, {"lib_search"}) :
              /\ k > 1
              /\ r.log[k - 1].op = "lib_page"
              /\ r.log[k - 1].res = "PageError"
        /\ Ops(r, {"nf_search"}) # {} => r.page = <<>>

\* A call went through all four stages, each after the one before failed.
C9_Witness ==
    /\ req[1].pc = "done"
    /\ Len(req[1].log) = 6
    /\ req[1].log[1].op = "primary_search"
    /\ req[1].log[2].op = "primary_fetch"
    /\ req[1].log[3].op = "lib_page"
    /\ req[1].log[4].op = "lib_search"
    /\ req[1].log[5].op = "lib_page_result"
    /\ req[1].log[6].op = "nf_search"

\* C10: when stage 1 yielded nothing and the lookup of the query raised
\* DisambiguationError with options [o1, ...], exactly o1 is fetched, once,
\* with no search and no scoring, and when that fetch succeeds the page
\* sent by send_article_summary is o1's.
C10_FirstOptionFetched ==
    \A c \in CallIds :
        LET r == req[c] IN
        r.options # <<>> =>
            /\ ~IsTruthy(r.direct_result)
            /\ Cardinality(Ops(r, {"lib_page_option"})) <= 1
            /\ \A k \in Ops(r, {"lib_page_option"}) :
                  /\ r.log[k].arg = r.options[1]
                  /\ r.log[k - 1].op = "lib_page"
                  /\ r.log[k - 1].res = "DisambiguationError"
            /\ Ops(r, {"lib_search", "lib_page_result", "nf_search"}) = {}
            /\ r.pc = "lib_option" <=> Ops(r, {"lib_page_option"}) = {}
            /\ \A k \in Ops(r, {"lib_page_option"}) :
                  r.log[k].res = "ok" =>
                      /\ r.page = <<[title |-> r.options[1]]>>
                      /\ r.pc \in ArticleSendPcs \cup {"done", "error_reply", "raised"}
                      /\ \A n \in 1..Len(r.replies) :
                            r.replies[n].kind # "error"
                                => /\ r.replies[n].kind \in
                                        {"article_summary", "format_fallback"}
                                   /\ r.replies[n].title = r.options[1]

\* 'Mercury' was reported ambiguous with options ['Mercury (planet)',
\* 'Mercury (element)', 'Freddie Mercury'] and the article reply for
\* 'Mercury (planet)' was delivered.
C10_Witness ==
    /\ req[1].title = Mercury
    /\ req[1].options = <<MercuryPlanet, MercuryElement, FreddieMercury>>
    /\ req[1].pc = "done"
    /\ req[1].replies = <<Reply("article_summary", MercuryPlanet, <<>>)>>

-----------------------------------------------------------------------------
(* Stage 3: the search of the library and the fetches in scored order.     *)

\* the entries of the log after the last wikipedia.search of line 184
FetchesSinceSearch(r) ==
    {k \in 1..Len(r.log) :
        \A j \in Ops(r, {"lib_search"}) : j < k}

C11_Inv ==
    \A c \in CallIds :
        LET r == req[c] IN
        /\ r.pc = "lib_try" =>
              /\ r.i \in 1..Len(r.scored_results)
              /\ Len(r.scored_results) = Len(r.search_results)
              /\ {r.scored_results[k][2] : k \in 1..Len(r.scored_results)}
                    = {r.search_results[k] : k \in 1..Len(r.search_results)}
              /\ \A k \in 1..Len(r.scored_results) :
                    r.scored_results[k][1]
                        = score_library_result(r.scored_results[k][2], r.title)
              /\ \A a, b \in 1..Len(r.scored_results) :
                    a < b => r.scored_results[a][1] >= r.scored_results[b][1]
              /\ Cardinality(FetchesSinceSearch(r)) = r.i - 1
              /\ \A k \in FetchesSinceSearch(r) :
                    r.log[k].op = "lib_page_result" /\ r.log[k].res = "exc"
        /\ \A k \in Ops(r, {"lib_page_result"}) :
              /\ r.log[k].res = "ok" =>
                    /\ r.page # <<>>
                    /\ k < Len(r.log) => r.log[k + 1].op = "lib_images"
              /\ r.log[k].res = "exc" =>
                    /\ k < Len(r.log) =>
                          r.log[k + 1].op \in {"lib_page_result", "nf_search"}
              /\ Ops(r, {"nf_search"}) # {} => r.log[k].res = "exc"

C11_Step ==
    \A c \in CallIds :
        LET r == req[c]
            r2 == req'[c]
        IN  (r.pc = "lib_try" /\ r2 # r) =>
                /\ Len(r2.log) = Len(r.log) + 1
                /\ r2.log[Len(r2.log)].op = "lib_page_result"
                /\ IF r2.log[Len(r2.log)].res = "ok"
                   THEN /\ r2.pc = "sas_images"
                        /\ r2.page = <<[title |-> r.scored_results[r.i][2]]>>
                   ELSE /\ r2.page = <<>>
                        /\ IF r.i < Len(r.scored_results)
                           THEN /\ r2.pc = "lib_try"
                                /\ r2.i = r.i + 1
                                /\ r2.scored_results = r.scored_results
                           ELSE r2.pc = "nf_search"

\* C11: at stage 3 the candidates of the search are fetched one at a time in
\* descending order of score_library_result(candidate, query); a failed
\* fetch only moves on to the next candidate, the first success ends the
\* fetching and its page is the one sent, and when every fetch failed the
\* call goes on to handle_page_not_found.
C11_Stage3DescendingFetch == []C11_Inv /\ [][C11_Step]_vars

\* For the query 'queen' the search returned ['Pink Floyd', 'Queen']; the
\* sort put 'Queen' first, its fetch failed and 'Pink Floyd' is next.
C11_Witness ==
    /\ req[1].pc = "lib_try"
    /\ req[1].title = QueenLower
    /\ req[1].search_results = <<PinkFloyd, Queen>>
    /\ req[1].scored_results = << <<115, Queen>>, <<15, PinkFloyd>> >>
    /\ req[1].i = 2

-----------------------------------------------------------------------------
(* Stage 4: the suggestions of handle_page_not_found.                      *)

NotFoundKinds == {"not_found_suggestions", "not_found_guidance"}

\* the positions of the results that differ from the query, case ignored
Kept(search_results, title) ==
    {k \in 1..Len(search_results) : Lower(search_results[k]) # Lower(title)}

\* the j-th smallest position of S
NthOf(S, j) == CHOOSE k \in S : Cardinality({m \in S : m < k}) = j - 1

\* the first (at most 3) kept results, in the order of the search
FirstKept(search_results, title) ==
    LET S == Kept(search_results, title)
        n == IF Cardinality(S) < 3 THEN Cardinality(S) ELSE 3
    IN  [j \in 1..n |-> search_results[NthOf(S, j)]]

\* C12: the suggestions of a not-found reply are exactly the first (at most
\* 3) results of the stage-4 search, in provider order, after removing every
\* result equal to the query case-insensitively; no suggestion equals the
\* query and there are never more than 3.
C12_SuggestionsFirstThreeFiltered ==
    \A c \in CallIds :
        LET r == req[c] IN
        \A n \in 1..Len(r.replies) :
            LET rp == r.replies[n] IN
            /\ Len(rp.suggestions) <= 3
            /\ \A j \in 1..Len(rp.suggestions) :
                  Lower(rp.suggestions[j]) # Lower(r.title)
            /\ rp.kind \in NotFoundKinds =>
                  /\ rp.title = r.title
                  /\ rp.suggestions = FirstKept(r.search_results, r.title)
                  /\ rp.kind = "not_found_suggestions" <=> rp.suggestions # <<>>

\* For the query 'Pink Floyd' the stage-4 search returned five results, one
\* of them the query itself; the reply suggests the first three of the rest.
C12_Witness ==
    /\ req[1].pc = "done"
    /\ req[1].title = PinkFloyd
    /\ req[1].search_results =
          <<PinkFloyd, QueenLower, Queen, QueenBand, PinkFloydDiscography>>
    /\ req[1].replies =
          <<Reply("not_found_suggestions", PinkFloyd,
                  <<QueenLower, Queen, QueenBand>>)>>

-----------------------------------------------------------------------------
(* The outcome when nothing is found.                                      *)

\* the backend calls of a call for which every stage came back empty
EmptyRun(title) ==
    <<LogEntry("primary_search", "empty", title),
      LogEntry("lib_page", "PageError", title),
      LogEntry("lib_search", "ok", title),
      LogEntry("nf_search", "ok", title)>>

IsPrefix(s, t) == Len(s) <= Len(t) /\ SubSeq(t, 1, Len(s)) = s

AllEmpty(r) ==
    /\ r.pc # "absent"
    /\ IsPrefix(r.log, EmptyRun(r.title))
    /\ r.search_results = <<>>

C13_Inv ==
    \A c \in CallIds :
        LET r == req[c] IN
        AllEmpty(r) =>
            /\ Len(r.log) = 0 => r.pc = "direct_search"
            /\ Len(r.log) = 1 => r.pc = "lib_page"
            /\ Len(r.log) = 2 => r.pc = "lib_search"
            /\ Len(r.log) = 3 => r.pc = "nf_search"
            /\ Len(r.log) = 4 =>
                  /\ r.pc \in {"nf_reply", "nf_fallback", "error_reply",
                                "done", "raised"}
                  /\ r.filtered_results = <<>>
                  /\ r.pc \in {"error_reply", "raised"} => r.e = "SendError"
            /\ \A n \in 1..Len(r.replies) : r.replies[n].suggestions = <<>>

C13_Step ==
    \A c \in CallIds :
        LET r == req[c]
            r2 == req'[c]
        IN  (AllEmpty(r) /\ r.pc = "nf_reply" /\ r2 # r) =>
                \/ /\ r2.pc = "done"
                   /\ r2.replies = <<Reply("not_found_guidance", r.title, <<>>)>>
                \/ /\ r2.pc = "nf_fallback"
                   /\ r2.replies = r.replies

\* C13: when the primary search is empty, the lookup of the query raises
\* PageError and both searches of the library are empty, get_article ends
\* in the guidance reply of handle_page_not_found, with no suggestion, and
\* not in the error reply: the handler of line 247 is reached only when
\* sending raised.
C13_AllEmptyEndsInGuidance == []C13_Inv /\ [][C13_Step]_vars

\* Every stage came back empty and the guidance reply was delivered.
C13_Witness ==
    /\ req[1].pc = "done"
    /\ req[1].log = EmptyRun(req[1].title)
    /\ req[1].search_results = <<>>
    /\ req[1].replies = <<Reply("not_found_guidance", req[1].title, <<>>)>>

NotFoundReplyKinds ==
    {"not_found_suggestions", "not_found_guidance", "not_found_fallback"}

\* C14: a reply of handle_page_not_found is delivered only after stage 1
\* yielded nothing, the lookup of the query raised PageError, and the
\* search of stage 3 ran and no fetch of a candidate succeeded.
C14_NotFoundOnlyAfterAllStages ==
    \A c \in CallIds :
        LET r == req[c] IN
        \A n \in 1..Len(r.replies) :
            r.replies[n].kind \in NotFoundReplyKinds =>
                /\ ~IsTruthy(r.direct_result)
                /\ r.page = <<>>
                /\ Len(r.log) >= 4
                /\ r.log[1].op = "primary_search"
                /\ \/ r.log[1].res \in {"exc", "empty"}
                   \/ r.log[2].op = "primary_fetch" /\ r.log[2].res = "exc"
                /\ \E k \in 2..(Len(r.log) - 2) :
                      /\ r.log[k].op = "lib_page"
                      /\ r.log[k].res = "PageError"
                      /\ r.log[k + 1].op = "lib_search"
                      /\ \A j \in (k + 2)..(Len(r.log) - 1) :
                            /\ r.log[j].op = "lib_page_result"
                            /\ r.log[j].res = "exc"
                /\ r.log[Len(r.log)].op = "nf_search"
                /\ Ops(r, {"lib_page_option", "lib_images", "lib_summary"}) = {}

\* The suggestions were delivered after the primary summary fetch raised,
\* the lookup raised PageError and two fetched candidates failed.
C14_Witness ==
    /\ req[1].pc = "done"
    /\ Len(req[1].log) = 7
    /\ req[1].log[2].op = "primary_fetch"
    /\ req[1].log[5].op = "lib_page_result"
    /\ req[1].log[6].op = "lib_page_result"
    /\ Len(req[1].replies) = 1
    /\ req[1].replies[1].kind = "not_found_suggestions"

-----------------------------------------------------------------------------
(* The order of candidates of equal score.                                 *)

\* the position of x in a list of distinct elements
IndexOf(list, x) == CHOOSE k \in 1..Len(list) : list[k] = x

\* C15: the tie-break is stable.  Stage 1: no candidate that the search
\* returned before the winner has the winner's score.  Stage 3: candidates
\* of equal score are fetched in the order the search returned them.  The
\* scores are the sort keys the code computed (lines 137 and 226).
C15_TieBreakStable ==
    \A c \in CallIds :
        LET r == req[c] IN
        /\ r.pc = "direct_fetch" =>
              LET scored_pages == ScoredPages(r.page_titles, r.title)
                  w == IndexOf(r.page_titles, r.best_page_title)
              IN  \A k \in 1..(w - 1) : scored_pages[k][1] # scored_pages[w][1]
        /\ r.pc = "lib_try" =>
              \A a, b \in 1..Len(r.scored_results) :
                  (a < b /\ r.scored_results[a][1] = r.scored_results[b][1]) =>
                      IndexOf(r.search_results, r.scored_results[a][2])
                          < IndexOf(r.search_results, r.scored_results[b][2])

\* For the query 'Mercury' the search returned ['Queen (band)', 'Queen',
\* 'Pink Floyd']; 'Queen' and 'Pink Floyd' tie below 'Queen (band)' and
\* 'Queen', the earlier of the two, is the next to be fetched.
C15_Witness ==
    /\ req[1].pc = "lib_try"
    /\ req[1].title = Mercury
    /\ req[1].search_results = <<QueenBand, Queen, PinkFloyd>>
    /\ req[1].scored_results[2] = <<15, Queen>>
    /\ req[1].scored_results[3] = <<15, PinkFloyd>>
    /\ req[1].i = 2

-----------------------------------------------------------------------------
(* The scorers applied to bounded inputs.                                  *)

MaxSuffixes == 1     \* most qualifiers appended to a title

\* 'Album'
Album == <<"A", "l", "b", "u", "m">>
\* 'Album (band)'
AlbumBand == Album \o <<" ">> \o ParenBand
\* ' (album)'
SuffixAlbum == <<" ">> \o ParenAlbum

\* qualifiers a title may carry after its name
Suffixes ==
    {SuffixAlbum,
     <<" ">> \o ParenBand,
     <<" ">> \o ParenMusician,
     <<" ">> \o ParenSong,
     <<" ", "(", "d", "i", "s", "a", "m", "b", "i", "g", "u", "a", "t", "i",
       "o", "n", ")">>,
     <<":", " ", "L", "i", "v", "e">>,
     <<" ", "-", " ", "T", "o", "u", "r">>,
     <<" ", EnDash, " ", "B">>}

RECURSIVE Concat(_)
Concat(ss) == IF ss = <<>> THEN <<>> ELSE Head(ss) \o Concat(Tail(ss))

\* the values of search_term
ScoreTerms ==
    {<<>>, Queen, QueenLower, PinkFloyd, Mercury, QueenBand, DarkSideAlbum,
     Album, AlbumBand, LiveAtPompeii}

\* the values of page_title for a search term: the term or another title,
\* followed by up to MaxSuffixes qualifiers
ScoreTitles(term) ==
    {stem \o Concat(ss) :
        stem \in {term, Queen},
        ss \in UNION {[1..k -> Suffixes] : k \in 0..MaxSuffixes}}

ScoreInit ==
    /\ text = <<>>
    /\ max_length = 1
    /\ chunks = <<>>
    /\ c_pc = "unused"
    /\ re_index = 0
    /\ re_chunks = <<>>
    /\ overflows = <<>>
    /\ req = [c \in CallIds |-> Absent]
    /\ sc_search_term \in ScoreTerms
    /\ sc_page_title \in ScoreTitles(sc_search_term)
    /\ sc_page_score = <<>>
    /\ sc_library_score = <<>>
    /\ sc_exact_score = <<>>
    /\ full = NoFullArticle
    /\ cb = NoCallback

\* score_page_title(page_title, search_term)
ScorePage ==
    /\ sc_page_score = <<>>
    /\ sc_page_score' = <<score_page_title(sc_page_title, sc_search_term)>>
    /\ UNCHANGED <<chunkVars, req, sendVars, sc_page_title, sc_search_term,
                   sc_library_score, sc_exact_score>>

\* score_library_result(result, search_term)
ScoreLibrary ==
    /\ sc_library_score = <<>>
    /\ sc_library_score' = <<score_library_result(sc_page_title, sc_search_term)>>
    /\ UNCHANGED <<chunkVars, req, sendVars, sc_page_title, sc_search_term,
                   sc_page_score, sc_exact_score>>

\* score_page_title(search_term, search_term): the candidate that is the
\* search term itself
ScoreExact ==
    /\ sc_exact_score = <<>>
    /\ sc_exact_score' = <<score_page_title(sc_search_term, sc_search_term)>>
    /\ UNCHANGED <<chunkVars, req, sendVars, sc_page_title, sc_search_term,
                   sc_page_score, sc_library_score>>

ScoreNext == ScorePage \/ ScoreLibrary \/ ScoreExact

ScoreSpec == ScoreInit /\ [][ScoreNext]_vars

-----------------------------------------------------------------------------
(* Properties of the scorers.                                              *)

\* C16: the primary scorer ranks a title that equals the search term above
\* the same title with the qualifier ' (album)': for every title t,
\* score_page_title(t, t) > score_page_title(t + ' (album)', t).
C16_ExactAboveAlbum ==
    ( /\ sc_page_title = sc_search_term \o SuffixAlbum
      /\ sc_page_score # <<>>
      /\ sc_exact_score # <<>> )
    => sc_exact_score[1] > sc_page_score[1]

\* score('Queen', 'Queen') = 115 and score('Queen (album)', 'Queen') = -25.
C16_Witness ==
    /\ sc_search_term = Queen
    /\ sc_page_title = Queen \o SuffixAlbum
    /\ sc_exact_score = <<115>>
    /\ sc_page_score = <<-25>>

\* the separator rule as the claim C17 states it: a title with a
\* parenthetical or a dash/colon separator gets the penalty, unless it
\* holds '(band)' or '(musician)', and then it gets the bonus
HasSeparator(t) ==
    \/ Contains(t, <<"(">>) /\ Contains(t, <<")">>)
    \/ Contains(t, <<" ", EnDash, " ">>)
    \/ Contains(t, <<" ", "-", " ">>)
    \/ Contains(t, <<":", " ">>)

StatedSeparatorScore(t, bonus, penalty) ==
    IF HasSeparator(t)
    THEN IF Contains(t, ParenBand) \/ Contains(t, ParenMusician)
         THEN bonus
         ELSE penalty
    ELSE 0

\* C17: the separator rule of the scorers: -30 (primary) or -25 (secondary)
\* for a title with a parenthetical or a dash/colon separator, and instead
\* +20 (primary) or +10 (secondary) when the title holds '(band)' or
\* '(musician)'; the other terms of the score are the base, keyword and
\* length terms.
C17_SeparatorRule ==
    LET title_lower == Lower(sc_page_title)
        search_lower == Lower(sc_search_term)
    IN  /\ sc_page_score # <<>> =>
              sc_page_score[1]
                  = BaseScore(title_lower, search_lower)
                    + SumPenalties(page_penalties, 1, title_lower)
                    + StatedSeparatorScore(sc_page_title, 20, -30)
                    + LengthScore(sc_page_title)
        /\ sc_library_score # <<>> =>
              sc_library_score[1]
                  = BaseScore(title_lower, search_lower)
                    + SumPenalties(library_penalties, 1, title_lower)
                    + StatedSeparatorScore(sc_page_title, 10, -25)
                    + LengthScore(sc_page_title)

-----------------------------------------------------------------------------
(* One outcome per call.                                                   *)

\* the replies a call holds at each position
OneReply(r) ==
    /\ Len(r.replies) <= 1
    /\ r.pc = "done" => Len(r.replies) = 1
    /\ r.pc = "raised" => r.replies = <<>>
    /\ r.pc \notin {"done", "raised", "absent"} => r.replies = <<>>

C18_Inv ==
    \A c \in CallIds :
        /\ OneReply(req[c])
        /\ req[c].pc \notin {"done", "raised", "absent"} => ENABLED Step(c)

C18_Step ==
    \A c \in CallIds :
        LET r == req[c]
            r2 == req'[c]
        IN  /\ r2.replies # r.replies =>
                  r2.pc = "done" /\ Len(r2.replies) = Len(r.replies) + 1
            /\ (r.pc # "raised" /\ r2.pc = "raised") => r.pc = "error_reply"

\* C18: every call of get_article delivers at most one reply; a call that
\* ended normally delivered exactly one; a call ends without a reply only
\* when the send of line 249 raised after the sends before it raised; and
\* a call that has not ended can always take its next step, whatever the
\* backend calls returned or raised.
C18_ExactlyOneOutcome == []C18_Inv /\ [][C18_Step]_vars

\* The photo and the text of send_direct_summary both raised and the
\* fallback text was the one reply delivered.
C18_Witness ==
    /\ req[1].pc = "done"
    /\ IsTruthy(req[1].direct_result)
    /\ req[1].image_url # ""
    /\ Len(req[1].replies) = 1
    /\ req[1].replies[1].kind = "format_fallback"

-----------------------------------------------------------------------------
(* Two calls of get_article interleaved.  The application runs each        *)
(* update's handler as a coroutine; a call gives way at each await, and    *)
(* the calls of the backends are the steps between.                        *)

\* the queries of the two calls
ConcQueries == {<<QueenLower, PinkFloyd>>, <<Mercury, Mercury>>}

\* what the searches answer: they raise, find nothing, or find one list
ConcPrimarySearchResponses(title) ==
    {[kind |-> "exc", data |-> <<>>],
     [kind |-> "json", data |-> <<title, <<>>>>],
     [kind |-> "json", data |-> <<title, <<PinkFloyd, Queen>>>>]}

ConcLibSearchResponses ==
    {[kind |-> "exc", results |-> <<>>],
     [kind |-> "ok", results |-> <<>>],
     [kind |-> "ok", results |-> <<PinkFloyd, Queen>>]}

\* what the other backend calls answer to each call.  Call 1: one option
\* list, a thumbnail with every summary, no exception of page.images or
\* wikipedia.summary.  Call 2: an extract without thumbnail, no exception,
\* no ambiguity and nothing from the library's searches.  Every send may
\* raise for both.
ConcEnvironment(c, r) ==
    LET last == r.log[Len(r.log)] IN
    /\ r.options \in {<<>>, <<MercuryPlanet, MercuryElement, FreddieMercury>>}
    /\ c = 1 =>
          /\ IsTruthy(r.direct_result) => r.direct_result[1].image # ""
          /\ r.log # <<>> => \/ last.op \notin {"lib_images", "lib_summary"}
                             \/ last.res = "ok"
    /\ c = 2 =>
          /\ r.search_results = <<>>
          /\ r.options = <<>>
          /\ r.image_url = ""
          /\ IsTruthy(r.direct_result) => r.direct_result[1].summary # ""
          /\ r.log # <<>> => last.res \notin {"exc", "TransportError"}

ConcInit ==
    /\ text = <<>>
    /\ max_length = 1
    /\ chunks = <<>>
    /\ c_pc = "unused"
    /\ re_index = 0
    /\ re_chunks = <<>>
    /\ overflows = <<>>
    /\ sc_page_title = <<>>
    /\ sc_search_term = <<>>
    /\ sc_page_score = <<>>
    /\ sc_library_score = <<>>
    /\ sc_exact_score = <<>>
    /\ full = NoFullArticle
    /\ cb = NoCallback
    /\ \E q \in ConcQueries : req = [c \in CallIds |-> NewCall(q[c])]

ConcStep(c) ==
    /\ \/ DirectSearchOf(c, ConcPrimarySearchResponses(req[c].title))
       \/ LibSearchOf(c, ConcLibSearchResponses)
       \/ NotFoundSearchOf(c, ConcLibSearchResponses)
       \/ OtherStep(c)
    /\ ConcEnvironment(c, req'[c])

ConcNext == \E c \in CallIds : ConcStep(c)

ConcSpec == ConcInit /\ [][ConcNext]_vars

\* what a call holds comes from its own query and its own backend answers
OwnInputs(r) ==
    /\ \A k \in Ops(r, {"primary_search", "lib_page", "lib_search",
                         "nf_search"}) : r.log[k].arg = r.title
    /\ r.pc = "direct_fetch" =>
          r.best_page_title = BestPageTitle(r.page_titles, r.title)
    /\ r.pc = "lib_try" =>
          r.scored_results = ScoredResults(r.search_results, r.title)
    /\ r.pc = "nf_reply" =>
          r.filtered_results = FilterResults(r.search_results, 1, r.title)
    /\ \A n \in 1..Len(r.replies) :
          LET rp == r.replies[n] IN
          /\ rp.kind \in NotFoundReplyKinds \cup {"error"} => rp.title = r.title
          /\ rp.kind = "article_summary" => rp.title = r.page[1].title
          /\ rp.kind = "direct_summary" => rp.title = r.direct_result[1].title

C19_Inv ==
    /\ \A c \in CallIds : OwnInputs(req[c])
    /\ C9_StagesInOrder
    /\ C10_FirstOptionFetched
    /\ C11_Inv
    /\ C12_SuggestionsFirstThreeFiltered
    /\ C14_NotFoundOnlyAfterAllStages
    /\ \A c \in CallIds : OneReply(req[c])

C19_Step ==
    /\ \E c \in CallIds : \A d \in CallIds \ {c} : req'[d] = req[d]
    /\ C11_Step
    /\ C13_Step
    /\ C18_Step

\* C19: two calls of get_article interleaved at their backend calls and
\* sends do not affect each other: every step changes the parameters,
\* locals, log and replies of one call only, what a call selects and
\* replies is computed from its own query and its own backend answers, and
\* each call keeps the stage order, the candidate selection and the
\* single reply that a call running alone has.
C19_CallsIndependent == []C19_Inv /\ [][C19_Step]_vars

\* Call 1 ('queen') is at its second stage-3 candidate while call 2
\* ('Pink Floyd') waits for the summary of its stage-1 winner.
C19_Witness ==
    /\ req[1].pc = "lib_try"
    /\ req[1].title = QueenLower
    /\ req[1].scored_results = << <<115, Queen>>, <<15, PinkFloyd>> >>
    /\ req[1].i = 2
    /\ req[2].pc = "direct_fetch"
    /\ req[2].title = PinkFloyd
    /\ req[2].best_page_title = PinkFloyd

-----------------------------------------------------------------------------
(* Explicit-choice mode (spec.md, section 4.2): the caller asks for the     *)
(* raw candidates of a search instead of auto-resolution.  With more than   *)
(* one raw candidate nothing is fetched and the outcome is Ambiguous with   *)
(* the first five candidates; otherwise the query is resolved by            *)
(* get_article.                                                              *)

MaxRaw == 6      \* longest raw candidate list of the search

\* candidate sequences of the search, in provider order
RawSequences ==
    {<<MercuryPlanet, MercuryElement, FreddieMercury, Mercury, Queen,
       QueenBand, PinkFloyd, PinkFloydDiscography>>,
     <<PinkFloydDiscography, DarkSideAlbum, PinkFloyd, LiveAtPompeii, Queen,
       QueenBand, Mercury, MercuryPlanet>>}

RawLists ==
    {SubSeq(sq, 1, k) : sq \in RawSequences, k \in 0..MaxRaw}

\* the candidates of an Ambiguous outcome: ranked by score
TopScored(candidates) ==
    LET scored == SortByScore(ScoredPages(candidates, <<>>), 1, <<>>)
        n == IF Len(candidates) < 5 THEN Len(candidates) ELSE 5
    IN  [k \in 1..n |-> scored[k][2]]

\* the candidates of an Ambiguous outcome: the first five, as returned
TopRaw(candidates) ==
    SubSeq(candidates, 1, IF Len(candidates) < 5 THEN Len(candidates) ELSE 5)

\* the search of the search-first flow
ChoiceSearch(c) ==
    LET r == req[c] IN
    /\ r.pc = "choice_search"
    /\ \E candidates \in RawLists :
          IF Len(candidates) > 1
          THEN SetReq(c, [r EXCEPT
                  !.pc = "choice_reply",
                  !.search_results = candidates,
                  !.log = Append(@, LogEntry("choice_search", "ok", r.title))])
          ELSE SetReq(c, NewCall(r.title))

\* the Ambiguous outcome is handed to the presentation layer
ChoiceReply(c) ==
    LET r == req[c] IN
    /\ r.pc = "choice_reply"
    /\ SetReq(c, [r EXCEPT
            !.pc = "done",
            !.replies = Append(@, Reply("ambiguous", r.title,
                                        TopRaw(r.search_results)))])

ChoiceInit ==
    /\ text = <<>>
    /\ max_length = 1
    /\ chunks = <<>>
    /\ c_pc = "unused"
    /\ re_index = 0
    /\ re_chunks = <<>>
    /\ overflows = <<>>
    /\ sc_page_title = <<>>
    /\ sc_search_term = <<>>
    /\ sc_page_score = <<>>
    /\ sc_library_score = <<>>
    /\ sc_exact_score = <<>>
    /\ full = NoFullArticle
    /\ cb = NoCallback
    /\ \E query \in Queries :
          req = [c \in CallIds |->
                    IF c = 1
                    THEN [Absent EXCEPT !.pc = "choice_search", !.title = query]
                    ELSE Absent]

ChoiceNext == \E c \in CallIds : ChoiceSearch(c) \/ ChoiceReply(c) \/ Step(c)

ChoiceSpec == ChoiceInit /\ [][ChoiceNext]_vars

\* C20: under explicit-choice mode, when the search returns more than one
\* raw candidate, no page is fetched and the outcome is Ambiguous with the
\* first (at most 5) raw candidates in provider order, unscored; an
\* Ambiguous outcome arises in no other way.
C20_ExplicitChoiceAmbiguous ==
    \A c \in CallIds :
        LET r == req[c] IN
        /\ Ops(r, {"choice_search"}) # {} =>
              /\ Len(r.search_results) > 1
              /\ r.log = <<LogEntry("choice_search", "ok", r.title)>>
              /\ r.pc \in {"choice_reply", "done"}
              /\ r.pc = "choice_reply" => r.replies = <<>>
              /\ r.pc = "done" =>
                    /\ Len(r.replies) = 1
                    /\ r.replies[1].kind = "ambiguous"
                    /\ r.replies[1].title = r.title
                    /\ Len(r.replies[1].suggestions) <= 5
                    /\ IsPrefix(r.replies[1].suggestions, r.search_results)
                    /\ \/ Len(r.replies[1].suggestions) = 5
                       \/ r.replies[1].suggestions = r.search_results
        /\ \A n \in 1..Len(r.replies) :
              r.replies[n].kind = "ambiguous" => Ops(r, {"choice_search"}) # {}

\* 'Mercury' with the raw candidates ['Mercury (planet)', 'Mercury
\* (element)', 'Freddie Mercury'] ended in Ambiguous with all three.
C20_Witness ==
    /\ req[1].pc = "done"
    /\ req[1].title = Mercury
    /\ req[1].search_results = <<MercuryPlanet, MercuryElement, FreddieMercury>>
    /\ req[1].replies =
          <<Reply("ambiguous", Mercury,
                  <<MercuryPlanet, MercuryElement, FreddieMercury>>)>>

-----------------------------------------------------------------------------
(* send_full_article, src/wikipedia_bot.py:444-471: the page content is     *)
(* split at the ceiling and sent chunk by chunk.  The ceiling (3000 in the  *)
(* code) and the texts are scaled down to the bounds of the chunker.        *)

MaxContent == 4   \* longest page content, in characters

Contents == UNION {[1..k -> Alphabet] : k \in 0..MaxContent}

\* line 451: the heading line, a paragraph separator and the content.  The
\* heading holds no separator; it is one character, as short against the
\* ceilings as the real heading is against 3000.
FullArticleText(content) == <<"a">> \o PARA \o content

\* lines 456-464: the message of chunk i (counted from 0) of n.
FullArticleMessage(i, n, chunk) ==
    [kind |-> IF i = 0 THEN "full_article_part" ELSE "part",
     part |-> i + 1,
     total |-> n,
     chunk |-> chunk,
     keyboard |-> IF i = 0 THEN <<>>
                  ELSE IF i = n - 1 THEN <<"View on Wikipedia">>
                  ELSE <<>>]

\* lines 468-471: the message of the except branch.
FullArticleError ==
    [kind |-> "error", part |-> 0, total |-> 0, chunk |-> <<>>,
     keyboard |-> <<>>]

SetFull(f) == full' = f /\ UNCHANGED <<req, scoreVars, cb>>

FullInit ==
    /\ text = <<>>
    /\ max_length \in 1..MaxCeil
    /\ chunks = <<>>
    /\ c_pc = "unused"
    /\ re_index = 0
    /\ re_chunks = <<>>
    /\ overflows = <<>>
    /\ req = [c \in CallIds |-> Absent]
    /\ sc_page_title = <<>>
    /\ sc_search_term = <<>>
    /\ sc_page_score = <<>>
    /\ sc_library_score = <<>>
    /\ sc_exact_score = <<>>
    /\ full = [NoFullArticle EXCEPT !.pc = "page", !.title = Queen]
    /\ cb = NoCallback

\* lines 447-451: wikipedia.page answers with a page, or raises
FullPage ==
    /\ full.pc = "page"
    /\ \/ /\ \E content \in Contents : text' = FullArticleText(content)
          /\ SetFull([full EXCEPT !.pc = "split"])
       \/ /\ text' = text
          /\ SetFull([full EXCEPT !.pc = "error_reply"])
    /\ UNCHANGED <<max_length, chunks, c_pc, re_index, re_chunks, overflows>>

\* line 454: chunks = self.split_text(formatted_text, max_length=3000); the
\* loop of line 456 does not run for an empty list
FullSplit ==
    /\ full.pc = "split"
    /\ chunks' = split_text(text, max_length)
    /\ overflows' = split_overflows(text, max_length)
    /\ SetFull([full EXCEPT !.i = 0,
                            !.pc = IF chunks' = <<>> THEN "done" ELSE "send"])
    /\ UNCHANGED <<text, max_length, c_pc, re_index, re_chunks>>

\* lines 456-464: one pass of the loop; reply_text delivers the message, or
\* raises and the except branch of line 466 is entered
FullSend ==
    /\ full.pc = "send"
    /\ \/ SetFull([full EXCEPT
              !.messages = Append(@, FullArticleMessage(full.i, Len(chunks),
                                                        chunks[full.i + 1])),
              !.i = @ + 1,
              !.pc = IF full.i + 1 = Len(chunks) THEN "done" ELSE "send"])
       \/ SetFull([full EXCEPT !.pc = "error_reply"])
    /\ UNCHANGED chunkVars

\* lines 466-471: the reply of the except branch; an exception of it leaves
\* send_full_article
FullErrorReply ==
    /\ full.pc = "error_reply"
    /\ \/ SetFull([full EXCEPT !.messages = Append(@, FullArticleError),
                               !.pc = "done"])
       \/ SetFull([full EXCEPT !.pc = "raised"])
    /\ UNCHANGED chunkVars

FullNext == FullPage \/ FullSplit \/ FullSend \/ FullErrorReply

FullSpec == FullInit /\ [][FullNext]_vars

\* The messages sent so far are the first chunks, in order, one per chunk.
SentInOrder ==
    /\ Len(full.messages) <= Len(chunks)
    /\ \A k \in 1..Len(full.messages) :
          /\ full.messages[k].chunk = chunks[k]
          /\ full.messages[k].part = k
          /\ full.messages[k].total = Len(chunks)

\* C22: send_full_article transmits the chunks of split_text in order, one
\* message per chunk, the i-th message labelled 'Part i/n' with n the number
\* of chunks, and the last message of the sequence carries the 'View on
\* Wikipedia' link button, for every n >= 1, an article that fits in a single
\* chunk included.
C22_PartsInOrderLastHasLink ==
    (\A k \in 1..Len(full.messages) : full.messages[k].kind # "error") =>
        /\ SentInOrder
        /\ (full.pc = "done" /\ Len(chunks) >= 1) =>
              /\ Len(full.messages) = Len(chunks)
              /\ full.messages[Len(chunks)].keyboard = <<"View on Wikipedia">>

-----------------------------------------------------------------------------
(* The callback buttons: the callback_data the three senders attach         *)
(* (lines 271-277, 316-322, 521-527) and handle_callback (lines 52-73).     *)

\* urllib.parse.quote(title): letters, digits and '_.-~/' stay, every other
\* character becomes the %XX of each byte of its UTF-8 encoding.  The table
\* holds the characters of the titles that are not kept.
Escapes ==
    << <<" ", <<"%", "2", "0">> >>,
       <<"(", <<"%", "2", "8">> >>,
       <<")", <<"%", "2", "9">> >>,
       <<":", <<"%", "3", "A">> >>,
       <<"%", <<"%", "2", "5">> >>,
       <<EnDash, <<"%", "E", "2", "%", "8", "0", "%", "9", "3">> >> >>

QuoteChar(ch) ==
    IF \E k \in 1..Len(Escapes) : Escapes[k][1] = ch
    THEN Escapes[CHOOSE k \in 1..Len(Escapes) : Escapes[k][1] = ch][2]
    ELSE <<ch>>

RECURSIVE QuoteFrom(_, _)
QuoteFrom(s, k) ==
    IF k > Len(s) THEN <<>> ELSE QuoteChar(s[k]) \o QuoteFrom(s, k + 1)
Quote(s) == QuoteFrom(s, 1)

\* urllib.parse.unquote(encoded_title): every %XX run that decodes to a
\* character becomes that character, everything else stays.  No escape of
\* the table is a prefix of another.
RECURSIVE Unquote(_)
Unquote(s) ==
    IF s = <<>> THEN <<>>
    ELSE IF \E k \in 1..Len(Escapes) : StartsWith(s, Escapes[k][2])
    THEN LET k == CHOOSE j \in 1..Len(Escapes) : StartsWith(s, Escapes[j][2])
         IN  <<Escapes[k][1]>> \o Unquote(Drop(s, Len(Escapes[k][2])))
    ELSE <<s[1]>> \o Unquote(Tail(s))

SearchAgain ==
    <<"s", "e", "a", "r", "c", "h", "_", "a", "g", "a", "i", "n">>
WikiPrefix == <<"w", "i", "k", "i", "_">>
FullPrefix == <<"f", "u", "l", "l", "_">>
LongerPrefix == <<"l", "o", "n", "g", "e", "r", "_">>

Button(callback_data, built_from) ==
    [callback_data |-> callback_data, built_from |-> built_from]

\* The buttons with callback_data of a reply: 'search_again' of
\* send_direct_summary (line 274), 'longer_<title>' of send_article_summary
\* (line 319), one 'wiki_<result>' per suggestion of handle_page_not_found
\* (lines 523-525).  The fallback and guidance replies carry none, the other
\* buttons open a url.
Buttons(reply) ==
    CASE reply.kind = "direct_summary" -> {Button(SearchAgain, <<>>)}
      [] reply.kind = "article_summary" ->
            {Button(LongerPrefix \o Quote(reply.title), reply.title)}
      [] reply.kind = "not_found_suggestions" ->
            {Button(WikiPrefix \o Quote(reply.suggestions[k]),
                    reply.suggestions[k]) : k \in 1..Len(reply.suggestions)}
      [] OTHER -> {}

\* 'Queen - 100%' with an en dash for the hyphen
QueenLive ==
    <<"Q", "u", "e", "e", "n", " ", EnDash, " ", "1", "0", "0", "%">>

\* what wikipedia.search answers in handle_page_not_found (line 517)
CallbackSearchResponses ==
    {[kind |-> "exc", results |-> <<>>],
     [kind |-> "ok", results |-> <<>>],
     [kind |-> "ok", results |-> <<MercuryPlanet, LiveAtPompeii, QueenLive>>]}

\* lines 419-425: the detailed summary text, scaled like FullArticleText.
LongerSummaries == {<<"a">>, <<"a", ".", " ", "a", NL, NL, "a">>}

LongerReply(i, n, chunk) ==
    [kind |-> "longer_summary", chunk |-> chunk,
     keyboard |-> IF i = n - 1 THEN <<"Read Full Article">> ELSE <<>>]

LongerError == [kind |-> "longer_error", chunk |-> <<>>, keyboard |-> <<>>]

CallbackInit ==
    /\ text = <<>>
    /\ max_length = MaxCeil
    /\ chunks = <<>>
    /\ c_pc = "unused"
    /\ re_index = 0
    /\ re_chunks = <<>>
    /\ overflows = <<>>
    /\ sc_page_title = <<>>
    /\ sc_search_term = <<>>
    /\ sc_page_score = <<>>
    /\ sc_library_score = <<>>
    /\ sc_exact_score = <<>>
    /\ full = NoFullArticle
    /\ cb = [NoCallback EXCEPT !.pc = "idle"]
    /\ \E query \in Queries :
          req = [c \in CallIds |-> IF c = 1 THEN NewCall(query) ELSE Absent]

\* The user presses a button of a reply of the first call.
PressButton ==
    /\ cb.pc = "idle"
    /\ \E k \in 1..Len(req[1].replies) :
          \E b \in Buttons(req[1].replies[k]) :
             cb' = [cb EXCEPT !.pc = "pressed",
                              !.callback_data = b.callback_data,
                              !.built_from = b.built_from]
    /\ UNCHANGED <<chunkVars, req, scoreVars, full>>

\* handle_callback, lines 52-73: query.answer(), then the branch on the
\* prefix of callback_data; data with none of the three prefixes ends the
\* handler without a call
HandleCallback ==
    /\ cb.pc = "pressed"
    /\ LET callback_data == cb.callback_data IN
       \/ /\ cb' = [cb EXCEPT !.pc = "raised"]
          /\ UNCHANGED <<req, full>>
       \/ IF StartsWith(callback_data, WikiPrefix)
          THEN LET title == Unquote(Drop(callback_data, 5)) IN
               /\ cb' = [cb EXCEPT !.pc = "get_article",
                                   !.action = "get_article", !.title = title]
               /\ req' = [req EXCEPT ![2] = NewCall(title)]
               /\ full' = full
          ELSE IF StartsWith(callback_data, FullPrefix)
          THEN LET title == Unquote(Drop(callback_data, 5)) IN
               /\ cb' = [cb EXCEPT !.pc = "send_full_article",
                                   !.action = "send_full_article",
                                   !.title = title]
               /\ full' = [NoFullArticle EXCEPT !.pc = "page", !.title = title]
               /\ req' = req
          ELSE IF StartsWith(callback_data, LongerPrefix)
          THEN LET title == Unquote(Drop(callback_data, 7)) IN
               /\ cb' = [cb EXCEPT !.pc = "longer_page",
                                   !.action = "send_longer_summary",
                                   !.title = title]
               /\ UNCHANGED <<req, full>>
          ELSE /\ cb' = [cb EXCEPT !.pc = "done"]
               /\ UNCHANGED <<req, full>>
    /\ UNCHANGED <<chunkVars, scoreVars>>

\* send_longer_summary, lines 419-428: page and summary are fetched and the
\* text is split, or a fetch raises
LongerPage ==
    /\ cb.pc = "longer_page"
    /\ \/ \E summary \in LongerSummaries :
             /\ text' = FullArticleText(summary)
             /\ chunks' = split_text(text', max_length)
             /\ overflows' = split_overflows(text', max_length)
             /\ cb' = [cb EXCEPT !.pc = IF chunks' = <<>> THEN "done"
                                        ELSE "longer_send"]
       \/ /\ cb' = [cb EXCEPT !.pc = "longer_error"]
          /\ UNCHANGED <<text, chunks, overflows>>
    /\ UNCHANGED <<max_length, c_pc, re_index, re_chunks, req, scoreVars, full>>

\* lines 429-435: one pass of the loop, the last chunk with the keyboard
LongerSend ==
    /\ cb.pc = "longer_send"
    /\ LET i == Len(cb.replies) IN
       \/ cb' = [cb EXCEPT
              !.replies = Append(@, LongerReply(i, Len(chunks), chunks[i + 1])),
              !.pc = IF i + 1 = Len(chunks) THEN "done" ELSE "longer_send"]
       \/ cb' = [cb EXCEPT !.pc = "longer_error"]
    /\ UNCHANGED <<chunkVars, req, scoreVars, full>>

\* lines 437-442: the reply of the except branch
LongerErrorReply ==
    /\ cb.pc = "longer_error"
    /\ \/ cb' = [cb EXCEPT !.replies = Append(@, LongerError), !.pc = "done"]
       \/ cb' = [cb EXCEPT !.pc = "raised"]
    /\ UNCHANGED <<chunkVars, req, scoreVars, full>>

\* a step of get_article of either call; full and cb are not touched
CallbackStep(c) ==
    /\ \/ DirectSearchOf(c, ConcPrimarySearchResponses(req[c].title))
       \/ LibSearchOf(c, ConcLibSearchResponses)
       \/ NotFoundSearchOf(c, CallbackSearchResponses)
       \/ OtherStep(c)
    /\ ConcEnvironment(c, req'[c])

CallbackNext ==
    \/ \E c \in CallIds : CallbackStep(c)
    \/ PressButton
    \/ HandleCallback
    \/ LongerPage
    \/ LongerSend
    \/ LongerErrorReply

CallbackSpec == CallbackInit /\ [][CallbackNext]_vars

\* C24: every callback button the bot attaches to a reply is handled: for each
\* callback_data emitted by send_direct_summary, send_article_summary and
\* handle_page_not_found ('search_again', 'longer_<title>', 'wiki_<title>'),
\* handle_callback dispatches to an action that produces a reply, and for
\* 'wiki_' and 'longer_' the title passed to the action equals the title the
\* button was built from.
C24_EveryButtonHandled ==
    cb.pc \notin {"unused", "idle", "pressed", "raised"} =>
        /\ cb.action \in {"get_article", "send_longer_summary"}
        /\ cb.title = cb.built_from
        /\ cb.action = "get_article" =>
              /\ req[2].pc # "absent"
              /\ req[2].title = cb.built_from
              /\ req[2].pc = "done" => req[2].replies # <<>>
        /\ (cb.action = "send_longer_summary" /\ cb.pc = "done") =>
              cb.replies # <<>>

====
